---- MODULE Spec2Model ----
(***************************************************************************)
(* FolderImagesPreview.generate_preview (src/__init__.py) as a state       *)
(* machine: one run of the node from its argument checks to the returned   *)
(* image or the raised error.  Strings are sequences of one-character      *)
(* strings; the canvas is the ordered log of the draw operations made on   *)
(* it; the file system is a directory tree given with the run's inputs.    *)
(***************************************************************************)
EXTENDS Integers, Sequences, FiniteSets, TLC

VARIABLES
    \* inputs of the run (never changed by it)
    folder_is_dir,      \* os.path.isdir(folder_path)
    font_exists,        \* os.path.exists(font_path)
    font_loads,         \* ImageFont.truetype succeeds
    background_color,   \* argument, a string
    text_color,         \* argument, a string
    images_per_row,     \* argument
    include_subfolders, \* argument
    fs,                 \* the directory tree under folder_path
    disk_images,        \* what a file of the tree may hold
    \* state of the run
    pc,                 \* position in generate_preview
    result,             \* "none", "image", or the error raised
    bg_color,
    txt_color,
    image_files,
    total_images,
    output_width,
    output_height,
    canvas,             \* draw operations executed on output_image, in order
    current_y,
    image_idx,
    sec,                \* index of the section the outer loop is at (1-based)
    pos,                \* index of the item the inner loop is at (1-based)
    outcomes            \* per processed item: opened? resized? painted?

vars == <<folder_is_dir, font_exists, font_loads, background_color, text_color,
          images_per_row, include_subfolders, fs, disk_images,
          pc, result, bg_color, txt_color, image_files, total_images,
          output_width, output_height, canvas, current_y, image_idx, sec, pos,
          outcomes>>

inputs == <<folder_is_dir, font_exists, font_loads, background_color, text_color,
            images_per_row, include_subfolders, fs, disk_images>>

-----------------------------------------------------------------------------
(* Bounds of the model *)

MaxSections == 2
MaxSectionSize == 2
PerRowBound == 3
MaxColorLen == 7
MaxDim == 50
MaxNameLen == 6
MaxDirs == 3

-----------------------------------------------------------------------------
(* Program constants *)

MinImagesPerRow == 1
MaxImagesPerRow == 20
DefaultImagesPerRow == 5

thumbnail_size == 256
text_height == 60
grid_spacing == 48
stats_height == 40
footer_height == 40
subfolder_title_height == 40
line_thickness == 2

CaptionMargin == 10
CaptionInset == 5
CaptionLineStep == 25

-----------------------------------------------------------------------------
(* Strings *)

Min(a, b) == IF a < b THEN a ELSE b

UpperCase == <<"A","B","C","D","E","F","G","H","I","J","K","L","M",
               "N","O","P","Q","R","S","T","U","V","W","X","Y","Z">>
LowerCase == <<"a","b","c","d","e","f","g","h","i","j","k","l","m",
               "n","o","p","q","r","s","t","u","v","w","x","y","z">>

\* str.lower(), one character
LowerChar(c) ==
    IF \E i \in 1..Len(UpperCase) : UpperCase[i] = c
    THEN LowerCase[CHOOSE i \in 1..Len(UpperCase) : UpperCase[i] = c]
    ELSE c

\* str.lower()
LowerStr(s) == [i \in 1..Len(s) |-> LowerChar(s[i])]

\* str.endswith(suffix)
EndsWith(s, suffix) ==
    /\ Len(s) >= Len(suffix)
    /\ SubSeq(s, Len(s) - Len(suffix) + 1, Len(s)) = suffix

\* str.lstrip(chars): every leading character that is in chars is removed
RECURSIVE LStrip(_, _)
LStrip(s, chars) ==
    IF s # <<>> /\ Head(s) \in chars THEN LStrip(Tail(s), chars) ELSE s

\* str.rstrip(chars): every trailing character that is in chars is removed
RECURSIVE RStrip(_, _)
RStrip(s, chars) ==
    IF s # <<>> /\ s[Len(s)] \in chars
    THEN RStrip(SubSeq(s, 1, Len(s) - 1), chars)
    ELSE s

\* s[i:i+2] with Python's clamping of a slice to the string (i is 0-based)
Slice2(s, i) == SubSeq(s, i + 1, Min(i + 2, Len(s)))

-----------------------------------------------------------------------------
(* Colour parsing, lines 39-44 *)

HexDigits == <<"0","1","2","3","4","5","6","7","8","9","a","b","c","d","e","f">>

IsHexDigit(c) == \E i \in 1..Len(HexDigits) : HexDigits[i] = LowerChar(c)

HexValue(c) == (CHOOSE i \in 1..Len(HexDigits) : HexDigits[i] = LowerChar(c)) - 1

Whitespace == {" "}

RECURSIVE HexNumber(_)
HexNumber(s) ==
    IF s = <<>> THEN 0
    ELSE 16 * HexNumber(SubSeq(s, 1, Len(s) - 1)) + HexValue(s[Len(s)])

\* int(s, 16) for a slice of at most two characters: surrounding whitespace is
\* stripped, one sign is accepted, and what is left must be one or two hex
\* digits (a "0x" prefix or an underscore needs more digits than two
\* characters leave room for).  ok = FALSE stands for ValueError.
IntBase16(s) ==
    LET t == RStrip(LStrip(s, Whitespace), Whitespace)
        signed == t # <<>> /\ t[1] \in {"+", "-"}
        digits == IF signed THEN Tail(t) ELSE t
        valid == digits # <<>> /\ \A i \in 1..Len(digits) : IsHexDigit(digits[i])
    IN  IF ~valid THEN [ok |-> FALSE, val |-> 0]
        ELSE [ok |-> TRUE,
              val |-> IF signed /\ t[1] = "-" THEN 0 - HexNumber(digits)
                      ELSE HexNumber(digits)]

\* tuple(int(color.lstrip('#')[i:i+2], 16) for i in (0, 2, 4))
ParseColor(color) ==
    LET r == LStrip(color, {"#"})
        c0 == IntBase16(Slice2(r, 0))
        c2 == IntBase16(Slice2(r, 2))
        c4 == IntBase16(Slice2(r, 4))
    IN  IF c0.ok /\ c2.ok /\ c4.ok
        THEN [ok |-> TRUE, rgb |-> <<c0.val, c2.val, c4.val>>]
        ELSE [ok |-> FALSE, rgb |-> <<>>]

-----------------------------------------------------------------------------
(* Image discovery, lines 27-28 and 46-58 *)

supported_formats ==
    { <<".","p","n","g">>, <<".","j","p","g">>, <<".","j","p","e","g">>,
      <<".","g","i","f">>, <<".","t","i","f","f">>, <<".","w","e","b","p">>,
      <<".","b","m","p">> }

\* f.lower().endswith(supported_formats)
Eligible(f) == \E suffix \in supported_formats : EndsWith(LowerStr(f), suffix)

RootDir == 1

Dirs(tree) == 1..Len(tree)

\* the subdirectories of d, in listing order
Children(tree, d) ==
    LET RECURSIVE From(_)
        From(c) == IF c > Len(tree) THEN <<>>
                   ELSE IF tree[c].parent = d THEN <<c>> \o From(c + 1)
                   ELSE From(c + 1)
    IN  From(1)

\* os.walk(folder_path): top-down, a directory before its subdirectories
RECURSIVE WalkFrom(_, _)
WalkFrom(tree, stack) ==
    IF stack = <<>> THEN <<>>
    ELSE <<Head(stack)>> \o WalkFrom(tree, Children(tree, Head(stack)) \o Tail(stack))

\* a walk that lists the root and its subdirectories and goes no deeper
Walk_OneLevel(tree) == <<RootDir>> \o Children(tree, RootDir)

Walk(tree) == WalkFrom(tree, <<RootDir>>)

\* os.listdir(d): the files of d and the names of its subdirectories
ListDir(tree, d) ==
    LET subs == Children(tree, d)
    IN  [i \in 1..Len(tree[d].files) |-> [name |-> tree[d].files[i], isfile |-> TRUE]]
        \o [i \in 1..Len(subs) |-> [name |-> tree[subs[i]].name, isfile |-> FALSE]]

\* [(root, f) for f in files if f.lower().endswith(supported_formats)]
SubfolderImages(tree, d) ==
    LET keep(f) == Eligible(f)
        names == SelectSeq(tree[d].files, keep)
    IN  [i \in 1..Len(names) |-> [root |-> d, image_file |-> names[i]]]

\* the non-recursive listing of line 54-56
FlatImages(tree) ==
    LET keep(e) == e.isfile /\ Eligible(e.name)
        entries == SelectSeq(ListDir(tree, RootDir), keep)
    IN  [i \in 1..Len(entries) |-> [root |-> RootDir, image_file |-> entries[i].name]]

RECURSIVE GroupedImages(_, _)
GroupedImages(tree, order) ==
    IF order = <<>> THEN <<>>
    ELSE LET subfolder_images == SubfolderImages(tree, Head(order))
         IN  (IF subfolder_images # <<>> THEN <<subfolder_images>> ELSE <<>>)
             \o GroupedImages(tree, Tail(order))

DiscoverImages(tree, recurse) ==
    IF recurse THEN GroupedImages(tree, Walk(tree)) ELSE <<FlatImages(tree)>>

RECURSIVE SumLen(_)
SumLen(sections) ==
    IF sections = <<>> THEN 0 ELSE Len(Head(sections)) + SumLen(Tail(sections))

-----------------------------------------------------------------------------
(* Canvas geometry, lines 60-96 *)

\* (n + images_per_row - 1) // images_per_row
RowsFor(n, per_row) == (n + per_row - 1) \div per_row

RECURSIVE SumRows(_, _)
SumRows(sections, per_row) ==
    IF sections = <<>> THEN 0
    ELSE RowsFor(Len(Head(sections)), per_row) + SumRows(Tail(sections), per_row)

OutputWidth(per_row) == per_row * thumbnail_size + (per_row + 1) * grid_spacing

\* a height whose rows are counted over all images together in both modes
OutputHeight_TotalRows(sections, per_row, recurse) ==
    grid_spacing + stats_height + grid_spacing
    + line_thickness + grid_spacing
    + (IF SumLen(sections) > 0 /\ recurse
       THEN Len(sections) * (subfolder_title_height + grid_spacing) ELSE 0)
    + RowsFor(SumLen(sections), per_row) * (thumbnail_size + text_height + grid_spacing)
    + grid_spacing + line_thickness
    + footer_height + grid_spacing

OutputHeight(sections, per_row, recurse) ==
    IF SumLen(sections) = 0
    THEN grid_spacing + stats_height + grid_spacing
         + line_thickness + grid_spacing + grid_spacing + line_thickness
         + footer_height + grid_spacing
    ELSE IF recurse
    THEN grid_spacing + stats_height + grid_spacing
         + line_thickness + grid_spacing
         + Len(sections) * (subfolder_title_height + grid_spacing)
         + SumRows(sections, per_row) * (thumbnail_size + text_height + grid_spacing)
         + grid_spacing + line_thickness
         + footer_height + grid_spacing
    ELSE grid_spacing + stats_height + grid_spacing
         + line_thickness + grid_spacing
         + RowsFor(SumLen(sections), per_row) * (thumbnail_size + text_height + grid_spacing)
         + grid_spacing + line_thickness
         + footer_height + grid_spacing

line_y_top == grid_spacing + stats_height + grid_spacing

LineYBottom(height) == height - footer_height - grid_spacing - line_thickness - grid_spacing

-----------------------------------------------------------------------------
(* Thumbnail normalisation, lines 148-172 *)

\* The pairs <<shorter, longer>>, among the sizes below 130 pixels, for which
\* the double-precision product shorter * (256 / longer) falls just below the
\* integer it equals exactly (256 / longer is rounded down, and the product
\* rounds to the double before that integer); int() then truncates to one
\* less.  No other pair of the sizes this model draws is affected.
FloatShortfall == { <<49, 49>>, <<49, 98>>, <<98, 98>>, <<103, 103>>, <<107, 107>> }

\* int(shorter * (thumbnail_size / longer)), in double precision
ScaleShorter(shorter, longer) ==
    IF <<shorter, longer>> \in FloatShortfall
    THEN (shorter * thumbnail_size) \div longer - 1
    ELSE (shorter * thumbnail_size) \div longer

\* lines 152-158: <<new_width, new_height>>
ScaledSize(img_width, img_height) ==
    IF img_width > img_height
    THEN <<thumbnail_size, ScaleShorter(img_height, img_width)>>
    ELSE <<ScaleShorter(img_width, img_height), thumbnail_size>>

\* lines 159-172.  Image.resize raises ValueError ("height and width must be
\* > 0") for a size with a zero side: ok = FALSE.  Otherwise the thumbnail is
\* the thumbnail_size square of line 162 with the resized image pasted on it
\* at <<at_x, at_y>>, cropped first when it is larger than the square.
Thumbnail(img_width, img_height) ==
    LET size == ScaledSize(img_width, img_height)
        new_width == size[1]
        new_height == size[2]
        paste_x == (thumbnail_size - new_width) \div 2
        paste_y == (thumbnail_size - new_height) \div 2
        crop == new_width > thumbnail_size \/ new_height > thumbnail_size
    IN  [ok |-> new_width >= 1 /\ new_height >= 1,
         new_width |-> new_width,
         new_height |-> new_height,
         cropped |-> crop,
         at_x |-> IF crop THEN 0 ELSE paste_x,
         at_y |-> IF crop THEN 0 ELSE paste_y,
         width |-> thumbnail_size,
         height |-> thumbnail_size]

-----------------------------------------------------------------------------
(* Captions, lines 183-199 and 224-243 *)

\* The advance of one glyph of the 20 pt caption font, in pixels.  The font
\* file is not part of the sources; the widths are those of a font with
\* narrow glyphs, ordinary glyphs and one wide glyph, none of them near the
\* width of a caption line.
CharWidth(c) ==
    CASE c = "." -> 40
      [] c = "/" -> 40
      [] c = "W" -> 120
      [] OTHER -> 90

\* bbox = font.getbbox(s); bbox[2] - bbox[0]
RECURSIVE TextWidth(_)
TextWidth(s) == IF s = <<>> THEN 0 ELSE CharWidth(Head(s)) + TextWidth(Tail(s))

RECURSIVE WrapFrom(_, _, _, _)
WrapFrom(text, lines, current_line, max_width) ==
    IF text = <<>>
    THEN IF current_line # <<>> THEN Append(lines, current_line) ELSE lines
    ELSE LET test_line == Append(current_line, Head(text))
         IN  IF TextWidth(test_line) <= max_width
             THEN WrapFrom(Tail(text), lines, test_line, max_width)
             ELSE WrapFrom(Tail(text), Append(lines, current_line), <<Head(text)>>, max_width)

wrap_text(text, max_width) == WrapFrom(text, <<>>, <<>>, max_width)

Ellipsis == <<".", ".", ".">>

\* a truncation that appends the marker without stripping the dots before it
CaptionLines_NoStrip(display_name) ==
    LET wrapped_text == wrap_text(display_name, thumbnail_size - CaptionMargin)
    IN  IF Len(wrapped_text) > 2
        THEN <<wrapped_text[1], wrapped_text[2] \o Ellipsis>>
        ELSE wrapped_text

\* lines 193-198: the lines handed to draw.text
CaptionLines(display_name) ==
    LET max_width == thumbnail_size - CaptionMargin
        wrapped_text == wrap_text(display_name, max_width)
        truncated == IF Len(wrapped_text) > 2
                     THEN <<wrapped_text[1], RStrip(wrapped_text[2], {"."}) \o Ellipsis>>
                     ELSE wrapped_text
    IN  SubSeq(truncated, 1, Min(2, Len(truncated)))

\* os.path.splitext(name)[0]: the name up to its last dot, unless only dots
\* come before that dot
Stem(name) ==
    LET dots == {i \in 1..Len(name) : name[i] = "."}
        last == CHOOSE i \in dots : \A j \in dots : j <= i
    IN  IF dots # {} /\ (\E j \in 1..(last - 1) : name[j] # ".")
        THEN SubSeq(name, 1, last - 1)
        ELSE name

\* os.path.relpath(d, folder_path) for a directory d below the root
RECURSIVE RelPath(_, _)
RelPath(tree, d) ==
    IF d = RootDir THEN <<>>
    ELSE IF tree[d].parent = RootDir THEN tree[d].name
    ELSE RelPath(tree, tree[d].parent) \o <<"/">> \o tree[d].name

\* lines 184-189
DisplayName(tree, item, recurse) ==
    LET filename == Stem(item.image_file)
        rel_path == RelPath(tree, item.root)
    IN  IF recurse /\ rel_path # <<>> THEN rel_path \o <<"/">> \o filename ELSE filename

\* line 140
SubfolderName(tree, d) == IF d = RootDir THEN tree[RootDir].name ELSE RelPath(tree, d)

\* lines 107-112
StatsText(n) ==
    IF n = 0 THEN [text |-> "Not found any image", n |-> n]
    ELSE IF n = 1 THEN [text |-> "Found 1 image", n |-> n]
    ELSE [text |-> "Found {n} images", n |-> n]

-----------------------------------------------------------------------------
(* generate_preview, lines 26-222 *)

\* lines 30-32
CheckFolder ==
    /\ pc = "check_folder"
    /\ IF ~folder_is_dir
       THEN pc' = "done" /\ result' = "RootNotFound"
       ELSE pc' = "check_font" /\ result' = result
    /\ UNCHANGED <<inputs, bg_color, txt_color, image_files, total_images,
                   output_width, output_height, canvas, current_y, image_idx,
                   sec, pos, outcomes>>

\* lines 34-37
CheckFont ==
    /\ pc = "check_font"
    /\ IF ~font_exists
       THEN pc' = "done" /\ result' = "FontNotFound"
       ELSE pc' = "parse_colors" /\ result' = result
    /\ UNCHANGED <<inputs, bg_color, txt_color, image_files, total_images,
                   output_width, output_height, canvas, current_y, image_idx,
                   sec, pos, outcomes>>

\* lines 39-44
ParseColors ==
    /\ pc = "parse_colors"
    /\ LET bg == ParseColor(background_color)
           txt == ParseColor(text_color)
       IN  IF bg.ok /\ txt.ok
           THEN /\ bg_color' = bg.rgb
                /\ txt_color' = txt.rgb
                /\ pc' = "discover"
                /\ result' = result
           ELSE /\ pc' = "done"
                /\ result' = "InvalidColorFormat"
                /\ UNCHANGED <<bg_color, txt_color>>
    /\ UNCHANGED <<inputs, image_files, total_images, output_width, output_height,
                   canvas, current_y, image_idx, sec, pos, outcomes>>

\* lines 46-58
Discover ==
    /\ pc = "discover"
    /\ image_files' = DiscoverImages(fs, include_subfolders)
    /\ total_images' = SumLen(image_files')
    /\ pc' = "create_canvas"
    /\ UNCHANGED <<inputs, result, bg_color, txt_color, output_width, output_height,
                   canvas, current_y, image_idx, sec, pos, outcomes>>

\* lines 60-97
CreateCanvas ==
    /\ pc = "create_canvas"
    /\ output_width' = OutputWidth(images_per_row)
    /\ output_height' = OutputHeight(image_files, images_per_row, include_subfolders)
    /\ pc' = "load_font"
    /\ UNCHANGED <<inputs, result, bg_color, txt_color, image_files, total_images,
                   canvas, current_y, image_idx, sec, pos, outcomes>>

\* lines 99-104
LoadFont ==
    /\ pc = "load_font"
    /\ IF ~font_loads
       THEN pc' = "done" /\ result' = "FontLoadFailure"
       ELSE pc' = "draw_header" /\ result' = result
    /\ UNCHANGED <<inputs, bg_color, txt_color, image_files, total_images,
                   output_width, output_height, canvas, current_y, image_idx,
                   sec, pos, outcomes>>

\* the divider rectangle of lines 117 and 124 / 213, corners inclusive
Divider(which, y) ==
    [op |-> "rectangle", what |-> which,
     x0 |-> grid_spacing, y0 |-> y,
     x1 |-> output_width - grid_spacing, y1 |-> y + line_thickness]

\* the footer of lines 123-127 and 212-216
Footer ==
    LET line_y_bottom == LineYBottom(output_height)
    IN  << Divider("bottom", line_y_bottom),
           [op |-> "text", what |-> "footer", x |-> grid_spacing,
            y |-> line_y_bottom + line_thickness + grid_spacing,
            text |-> "current_time"] >>

\* lines 106-134
DrawHeader ==
    /\ pc = "draw_header"
    /\ LET header == << [op |-> "text", what |-> "stats", x |-> grid_spacing,
                         y |-> grid_spacing, text |-> StatsText(total_images)],
                        Divider("top", line_y_top) >>
       IN  IF total_images = 0
           THEN /\ canvas' = canvas \o header \o Footer
                /\ pc' = "done"
                /\ result' = "image"
                /\ UNCHANGED <<current_y, image_idx, sec>>
           ELSE /\ canvas' = canvas \o header
                /\ current_y' = line_y_top + line_thickness + grid_spacing
                /\ image_idx' = 0
                /\ sec' = 1
                /\ pc' = "section"
                /\ result' = result
    /\ UNCHANGED <<inputs, bg_color, txt_color, image_files, total_images,
                   output_width, output_height, pos, outcomes>>

\* lines 136-143: the head of the outer loop
BeginSection ==
    /\ pc = "section"
    /\ IF sec > Len(image_files)
       THEN /\ pc' = "draw_footer"
            /\ UNCHANGED <<canvas, current_y, pos>>
       ELSE LET subfolder_images == image_files[sec]
            IN  /\ IF include_subfolders /\ subfolder_images # <<>>
                   THEN /\ canvas' = Append(canvas,
                              [op |-> "text", what |-> "title", sec |-> sec,
                               x |-> grid_spacing, y |-> current_y,
                               text |-> SubfolderName(fs, subfolder_images[1].root),
                               count |-> Len(subfolder_images)])
                        /\ current_y' = current_y + subfolder_title_height + grid_spacing
                   ELSE UNCHANGED <<canvas, current_y>>
                /\ pos' = 1
                /\ pc' = "item"
    /\ UNCHANGED <<inputs, result, bg_color, txt_color, image_files, total_images,
                   output_width, output_height, image_idx, sec, outcomes>>

\* a placement by the running index, without the reduction modulo the section
GridPosition_NoReset(idx, section_len, per_row, top) ==
    << grid_spacing + (idx % per_row) * (thumbnail_size + grid_spacing),
       top + (idx \div per_row) * (thumbnail_size + text_height + grid_spacing) >>

\* lines 174-178: <<x, y>> of the cell an item is pasted at
GridPosition(idx, section_len, per_row, top) ==
    LET row == (idx % section_len) \div per_row
        col == (idx % section_len) % per_row
    IN  << grid_spacing + col * (thumbnail_size + grid_spacing),
           top + row * (thumbnail_size + text_height + grid_spacing) >>

\* lines 145-205: one iteration of the inner loop.  Image.open raises for a
\* file that does not decode and Image.resize for a size with a zero side;
\* either way the except clause skips the item and image_idx is not advanced.
ProcessItem ==
    /\ pc = "item"
    /\ pos <= Len(image_files[sec])
    /\ \E img \in disk_images :
         LET subfolder_images == image_files[sec]
             item == subfolder_images[pos]
             thumbnail == Thumbnail(img.width, img.height)
             xy == GridPosition(image_idx, Len(subfolder_images), images_per_row,
                                current_y)
             x == xy[1]
             y == xy[2]
             text_y == y + thumbnail_size + CaptionInset
             display_name == DisplayName(fs, item, include_subfolders)
             lines == CaptionLines(display_name)
             painted == img.decodes /\ thumbnail.ok
         IN  /\ outcomes' = Append(outcomes,
                    [sec |-> sec, pos |-> pos, source |-> img,
                     decoded |-> img.decodes, painted |-> painted])
             /\ IF painted
                THEN /\ canvas' = Append(canvas,
                            [op |-> "paste", sec |-> sec, pos |-> pos,
                             x |-> x, y |-> y, top |-> current_y,
                             thumbnail |-> thumbnail])
                          \o [i \in 1..Len(lines) |->
                                [op |-> "text", what |-> "caption",
                                 sec |-> sec, pos |-> pos,
                                 x |-> x + CaptionInset,
                                 y |-> text_y + (i - 1) * CaptionLineStep,
                                 text |-> lines[i], of |-> display_name]]
                     /\ image_idx' = image_idx + 1
                ELSE UNCHANGED <<canvas, image_idx>>
    /\ pos' = pos + 1
    /\ UNCHANGED <<inputs, pc, result, bg_color, txt_color, image_files, total_images,
                   output_width, output_height, current_y, sec>>

\* lines 207-209: the foot of the outer loop
EndSection ==
    /\ pc = "item"
    /\ pos > Len(image_files[sec])
    /\ IF include_subfolders
       THEN LET rows_in_subfolder == RowsFor(Len(image_files[sec]), images_per_row)
            IN  current_y' = current_y
                    + rows_in_subfolder * (thumbnail_size + text_height + grid_spacing)
       ELSE current_y' = current_y
    /\ sec' = sec + 1
    /\ pc' = "section"
    /\ UNCHANGED <<inputs, result, bg_color, txt_color, image_files, total_images,
                   output_width, output_height, canvas, image_idx, pos, outcomes>>

\* lines 211-222
DrawFooter ==
    /\ pc = "draw_footer"
    /\ canvas' = canvas \o Footer
    /\ pc' = "done"
    /\ result' = "image"
    /\ UNCHANGED <<inputs, bg_color, txt_color, image_files, total_images,
                   output_width, output_height, current_y, image_idx, sec, pos,
                   outcomes>>

Next ==
    \/ CheckFolder
    \/ CheckFont
    \/ ParseColors
    \/ Discover
    \/ CreateCanvas
    \/ LoadFont
    \/ DrawHeader
    \/ BeginSection
    \/ ProcessItem
    \/ EndSection
    \/ DrawFooter

-----------------------------------------------------------------------------
(* The inputs of a run *)

DefaultBackground == <<"#", "F", "F", "F", "F", "F", "F">>
DefaultText == <<"#", "0", "0", "0", "0", "0", "0">>

Undecodable == [decodes |-> FALSE, width |-> 0, height |-> 0]
Picture(w, h) == [decodes |-> TRUE, width |-> w, height |-> h]

FileName(i) == <<LowerCase[i], ".", "p", "n", "g">>
FirstFiles(k) == [i \in 1..k |-> FileName(i)]
DirName(d) == <<"d", HexDigits[d]>>
DirNames == [d \in 1..Len(HexDigits) |-> DirName(d)]

ParentMaps(n) ==
    {p \in [1..n -> 0..n] : p[1] = 0 /\ \A d \in 2..n : p[d] \in 1..(d - 1)}

\* the trees of n directories whose directory d is named names[d] and holds
\* one of the file lists of FileChoices
TreesOf(n, names, FileChoices) ==
    { [d \in 1..n |-> [parent |-> p[d], name |-> names[d], files |-> f[d]]] :
          p \in ParentMaps(n), f \in [1..n -> FileChoices] }

SingleFileTree(name) == << [parent |-> 0, name |-> DirName(RootDir), files |-> <<name>>] >>

\* what a run starts from, whatever its inputs
RunStart ==
    /\ pc = "check_folder"
    /\ result = "none"
    /\ bg_color = <<>>
    /\ txt_color = <<>>
    /\ image_files = <<>>
    /\ total_images = 0
    /\ output_width = 0
    /\ output_height = 0
    /\ canvas = <<>>
    /\ current_y = 0
    /\ image_idx = 0
    /\ sec = 0
    /\ pos = 0
    /\ outcomes = <<>>

EnvironmentOk ==
    /\ folder_is_dir = TRUE
    /\ font_exists = TRUE
    /\ font_loads = TRUE

DefaultColors ==
    /\ background_color = DefaultBackground
    /\ text_color = DefaultText

(* Layouts: every tree of up to MaxSections directories with up to
   MaxSectionSize images each, files that decode or do not; the fatal
   conditions, alone and together, over small folders; and small folders
   whose files may also be images too thin to scale. *)

PerRowValues == (MinImagesPerRow..Min(PerRowBound, MaxImagesPerRow)) \cup {MaxImagesPerRow}

LayoutTrees ==
    UNION { TreesOf(n, DirNames, {FirstFiles(k) : k \in 0..MaxSectionSize}) :
                n \in 1..MaxSections }

ColorSamples ==
    { DefaultBackground,
      <<"G", "G", "G", "G", "G", "G">>,
      <<"#", "F", "F", "F", "F", "F">> }

InitLayout ==
    /\ EnvironmentOk
    /\ DefaultColors
    /\ images_per_row \in PerRowValues
    /\ include_subfolders \in BOOLEAN
    /\ fs \in LayoutTrees
    /\ disk_images = {Undecodable, Picture(512, 256)}

InitFatal ==
    /\ folder_is_dir \in BOOLEAN
    /\ font_exists \in BOOLEAN
    /\ font_loads \in BOOLEAN
    /\ background_color \in ColorSamples
    /\ text_color \in ColorSamples
    /\ images_per_row = DefaultImagesPerRow
    /\ include_subfolders \in BOOLEAN
    /\ fs \in TreesOf(1, DirNames, {FirstFiles(k) : k \in 0..2})
    /\ disk_images = {Picture(100, 400)}

InitSkips ==
    /\ EnvironmentOk
    /\ DefaultColors
    /\ images_per_row \in {MinImagesPerRow, DefaultImagesPerRow}
    /\ include_subfolders \in BOOLEAN
    /\ fs \in TreesOf(1, DirNames, {FirstFiles(k) : k \in 1..2})
    /\ disk_images = {Undecodable, Picture(100, 400), Picture(1, 1000)}

Init == RunStart /\ (InitLayout \/ InitFatal \/ InitSkips)

Spec == Init /\ [][Next]_vars

(* Colour strings: every string of up to MaxColorLen characters over an
   alphabet with hex digits of both cases, a letter that is no hex digit and
   a sign, with and without the leading '#', as the background colour; and a
   few of them as the text colour. *)

ColorAlphabet == {"F", "a", "G", "-"}

ColorStrings ==
    { prefix \o body : prefix \in {<<>>, <<"#">>},
                       body \in UNION { [1..n -> ColorAlphabet] : n \in 0..MaxColorLen } }

InitColor ==
    /\ RunStart
    /\ EnvironmentOk
    /\ \/ background_color \in ColorStrings /\ text_color = DefaultText
       \/ background_color = DefaultBackground /\ text_color \in ColorSamples
    /\ images_per_row = DefaultImagesPerRow
    /\ include_subfolders = FALSE
    /\ fs = SingleFileTree(FileName(1))
    /\ disk_images = {Picture(512, 256)}

SpecColor == InitColor /\ [][Next]_vars

(* Source image sizes: every width and height up to MaxDim, and some larger
   ones, for the one image of a folder. *)

ThumbDims == (1..MaxDim) \cup {98, 100, 256, 257, 400, 512, 1000}

InitThumb ==
    /\ RunStart
    /\ EnvironmentOk
    /\ DefaultColors
    /\ images_per_row = DefaultImagesPerRow
    /\ include_subfolders = FALSE
    /\ fs = SingleFileTree(FileName(1))
    /\ \E w \in ThumbDims, h \in ThumbDims : disk_images = {Picture(w, h)}

SpecThumb == InitThumb /\ [][Next]_vars

(* Captions: every file stem of up to MaxNameLen characters over an alphabet
   with an ordinary glyph, the dot and the wide glyph, directly in the root
   or in a subdirectory of it. *)

CaptionAlphabet == {"a", ".", "W"}

NameStems == UNION { [1..n -> CaptionAlphabet] : n \in 1..MaxNameLen }

InitWrap ==
    /\ RunStart
    /\ EnvironmentOk
    /\ DefaultColors
    /\ images_per_row = DefaultImagesPerRow
    /\ include_subfolders \in BOOLEAN
    /\ \E stem \in NameStems :
          LET name == stem \o <<".", "p", "n", "g">>
          IN  \/ fs = SingleFileTree(name)
              \/ fs = << [parent |-> 0, name |-> DirName(1), files |-> <<>>],
                         [parent |-> 1, name |-> DirName(2), files |-> <<name>>] >>
    /\ disk_images = {Picture(512, 256)}

SpecWrap == InitWrap /\ [][Next]_vars

(* Directory trees: every tree of up to MaxDirs directories, each holding one
   of a few file lists with supported and unsupported names, the
   subdirectories named like image files. *)

FileLists ==
    { <<>>,
      << <<"a", ".", "p", "n", "g">> >>,
      << <<"n", ".", "t", "x", "t">>, <<"p", "n", "g">>,
         <<"e", ".", "p", "n", "g", "x">> >>,
      << <<"b", ".", "J", "P", "G">>, <<"n", ".", "t", "x", "t">>,
         <<"c", ".", "j", "p", "e", "g">>, <<".", "b", "m", "p">> >>,
      << <<"f", ".", "T", "i", "f", "f">>, <<"g", ".", "w", "e", "b", "p">>,
         <<"h", ".", "G", "I", "F">>, <<"i", ".", "g", "i">> >> }

ImageLikeDirNames == [d \in 1..Len(HexDigits) |-> DirName(d) \o <<".", "p", "n", "g">>]

DiscoverTrees == UNION { TreesOf(n, ImageLikeDirNames, FileLists) : n \in 1..MaxDirs }

InitDiscover ==
    /\ RunStart
    /\ EnvironmentOk
    /\ DefaultColors
    /\ images_per_row = DefaultImagesPerRow
    /\ include_subfolders \in BOOLEAN
    /\ fs \in DiscoverTrees
    /\ disk_images = {Picture(512, 256)}

SpecDiscover == InitDiscover /\ [][Next]_vars

-----------------------------------------------------------------------------
(* Properties *)

PasteOps == {k \in 1..Len(canvas) : canvas[k].op = "paste"}

TitleOps == {k \in 1..Len(canvas) : canvas[k].op = "text" /\ canvas[k].what = "title"}

CaptionOps == {k \in 1..Len(canvas) : canvas[k].op = "text" /\ canvas[k].what = "caption"}

PastesOf(s, i) == {k \in PasteOps : canvas[k].sec = s /\ canvas[k].pos = i}

Errors == {"RootNotFound", "FontNotFound", "InvalidColorFormat", "FontLoadFailure"}

\* the colours have been parsed, successfully or not
ColorsParsed == pc \notin {"check_folder", "check_font", "parse_colors"}

\* image_files and total_images hold the result of the discovery
Discovered ==
    \/ pc \in {"create_canvas", "load_font", "draw_header", "section", "item", "draw_footer"}
    \/ pc = "done" /\ result \in {"image", "FontLoadFailure"}

\* Image.new has run
CanvasCreated == Discovered /\ pc # "create_canvas"

CeilDiv(a, b) == IF a % b = 0 THEN a \div b ELSE a \div b + 1

SectionSizes == [s \in 1..Len(image_files) |-> Len(image_files[s])]

RECURSIVE SumTo(_, _)
SumTo(f, n) == IF n = 0 THEN 0 ELSE f[n] + SumTo(f, n - 1)

\* C1: when no image fails to decode, the item at 0-based position i of its
\* section is pasted at row i div images_per_row and column i mod
\* images_per_row, at pixel (48 + col*(256+48), sectionTop + row*(256+60+48)),
\* in flat and in grouped mode, whatever the section sizes.
C1_GridPlacement ==
    (\A o \in 1..Len(outcomes) : outcomes[o].painted) =>
        \A k \in PasteOps :
            LET i == canvas[k].pos - 1
                row == i \div images_per_row
                col == i % images_per_row
            IN  /\ canvas[k].x = 48 + col * (256 + 48)
                /\ canvas[k].y = canvas[k].top + row * (256 + 60 + 48)

\* what is left of a colour string once its leading '#' is removed
Remainder(color) == IF color # <<>> /\ color[1] = "#" THEN Tail(color) ELSE color

SixHexDigits(color) ==
    /\ Len(Remainder(color)) = 6
    /\ \A i \in 1..6 : IsHexDigit(Remainder(color)[i])

Bytes(color) ==
    LET r == Remainder(color)
    IN  << 16 * HexValue(r[1]) + HexValue(r[2]),
           16 * HexValue(r[3]) + HexValue(r[4]),
           16 * HexValue(r[5]) + HexValue(r[6]) >>

\* C2: the colour parsing step fails with the invalid-colour error for every
\* background or text colour whose remainder after the leading '#' is not
\* exactly 6 hex digits, and succeeds with the three byte values, each in
\* 0..255, when both remainders are exactly 6 hex digits.
C2_ColorParsing ==
    ColorsParsed /\ result \notin {"RootNotFound", "FontNotFound"} =>
        IF SixHexDigits(background_color) /\ SixHexDigits(text_color)
        THEN /\ result # "InvalidColorFormat"
             /\ bg_color = Bytes(background_color)
             /\ txt_color = Bytes(text_color)
             /\ \A i \in 1..3 : bg_color[i] \in 0..255 /\ txt_color[i] \in 0..255
        ELSE result = "InvalidColorFormat"

\* C3: the canvas is images_per_row*256 + (images_per_row+1)*48 wide and 324,
\* 324 + ceil(total/images_per_row)*364 (flat) or 324 + sections*88 + (sum of
\* ceil(sectionSize/images_per_row))*364 (grouped) high; the size is set
\* before anything is drawn and stays what it is.
C3_CanvasSize ==
    /\ canvas # <<>> => CanvasCreated
    /\ CanvasCreated =>
        LET total == SumTo(SectionSizes, Len(image_files))
            rows == [s \in 1..Len(image_files) |-> CeilDiv(Len(image_files[s]), images_per_row)]
        IN  /\ output_width = images_per_row * 256 + (images_per_row + 1) * 48
            /\ output_height =
                  IF total = 0 THEN 324
                  ELSE IF ~include_subfolders
                  THEN 324 + CeilDiv(total, images_per_row) * 364
                  ELSE 324 + Len(image_files) * 88 + SumTo(rows, Len(image_files)) * 364

\* C3's case: a finished grouped render of two sections, one of them taking
\* more than one row
C3_Witness ==
    /\ pc = "done"
    /\ result = "image"
    /\ include_subfolders
    /\ Len(image_files) = 2
    /\ \E s \in 1..2 : Len(image_files[s]) > images_per_row
    /\ C3_CanvasSize

\* C4: whatever items fail to decode, the run ends by returning an image, no
\* failing item is painted, and every item that decodes is painted exactly
\* once, into a cell of its own section.
C4_SkipAndContinue ==
    /\ pc = "done" /\ outcomes # <<>> => result = "image"
    /\ \A o \in 1..Len(outcomes) :
          LET out == outcomes[o]
              mine == PastesOf(out.sec, out.pos)
              band == CeilDiv(Len(image_files[out.sec]), images_per_row) * (256 + 60 + 48)
          IN  IF out.decoded
              THEN /\ Cardinality(mine) = 1
                   /\ \A k \in mine : /\ canvas[k].y >= canvas[k].top
                                      /\ canvas[k].y + 256 + 60 <= canvas[k].top + band
              ELSE mine = {}

\* C5: every caption line drawn is at most max_width = 246 pixels wide, the
\* truncated second line with its "..." included, and no caption has more
\* than two lines.
C5_CaptionFits ==
    /\ \A k \in CaptionOps : TextWidth(canvas[k].text) <= 246
    /\ \A p \in PasteOps :
          Cardinality({k \in CaptionOps : canvas[k].sec = canvas[p].sec
                                          /\ canvas[k].pos = canvas[p].pos}) <= 2

\* C6: for every source size (w, h) with w, h >= 1 the longer side is scaled
\* to 256 and the shorter to floor(shorter*256/longer), nothing is cropped,
\* the scaled image is centred at ((256-newW) div 2, (256-newH) div 2), and
\* the thumbnail is 256x256.
C6_Thumbnail ==
    \A o \in 1..Len(outcomes) :
        LET out == outcomes[o]
            w == out.source.width
            h == out.source.height
            mine == PastesOf(out.sec, out.pos)
        IN  out.decoded /\ w >= 1 /\ h >= 1 =>
                /\ mine # {}
                /\ \A k \in mine :
                      LET t == canvas[k].thumbnail
                      IN  /\ t.new_width = IF w >= h THEN 256 ELSE (w * 256) \div h
                          /\ t.new_height = IF h >= w THEN 256 ELSE (h * 256) \div w
                          /\ t.new_width <= 256 /\ t.new_height <= 256
                          /\ ~t.cropped
                          /\ t.at_x = (256 - t.new_width) \div 2
                          /\ t.at_y = (256 - t.new_height) \div 2
                          /\ t.width = 256 /\ t.height = 256

\* the caption lines drawn for the item pasted by canvas[p], in drawing order
DrawnLines(p) ==
    LET mine(op) == /\ op.op = "text"
                    /\ op.what = "caption"
                    /\ op.sec = canvas[p].sec
                    /\ op.pos = canvas[p].pos
        ops == SelectSeq(canvas, mine)
    IN  [i \in 1..Len(ops) |-> ops[i].text]

\* line without the dots it ends in
WithoutTrailingDots(line) ==
    LET n == CHOOSE n \in 0..Len(line) :
                 /\ n = 0 \/ line[n] # "."
                 /\ \A i \in (n + 1)..Len(line) : line[i] = "."
    IN  SubSeq(line, 1, n)

\* C7: a caption no wider than max_width is drawn as one line, the text; one
\* whose greedy wrap has 3 or more lines is drawn as 2 lines, the first greedy
\* line and the second greedy line with its trailing dots replaced by one
\* "..."; one whose greedy wrap has exactly 2 lines is drawn as those lines.
C7_CaptionLines ==
    \A p \in PasteOps :
        LET text == DisplayName(fs, image_files[canvas[p].sec][canvas[p].pos],
                                include_subfolders)
            greedy == wrap_text(text, 246)
            drawn == DrawnLines(p)
        IN  /\ TextWidth(text) <= 246 => drawn = <<text>>
            /\ Len(greedy) >= 3 =>
                  /\ Len(drawn) = 2
                  /\ drawn[1] = greedy[1]
                  /\ drawn[2] = WithoutTrailingDots(greedy[2]) \o <<".", ".", ".">>
            /\ Len(greedy) = 2 => drawn = greedy

\* C7's case: a caption of 3 or more greedy lines whose second line ends in a
\* dot has been drawn
C7_Witness ==
    /\ C7_CaptionLines
    /\ \E p \in PasteOps :
          LET greedy == wrap_text(DisplayName(fs, image_files[canvas[p].sec][canvas[p].pos],
                                              include_subfolders), 246)
          IN  /\ Len(greedy) >= 3
              /\ greedy[2] # <<>>
              /\ greedy[2][Len(greedy[2])] = "."
              /\ Len(DrawnLines(p)) = 2

SameLetter(a, b) ==
    a = b \/ \E i \in 1..Len(UpperCase) : UpperCase[i] = a /\ LowerCase[i] = b

\* name ends, whatever the case of its letters, in a supported extension
SupportedName(name) ==
    \E ext \in supported_formats :
        /\ Len(name) >= Len(ext)
        /\ \A i \in 1..Len(ext) : SameLetter(name[Len(name) - Len(ext) + i], ext[i])

EligibleFiles(d) == SelectSeq(fs[d].files, SupportedName)

SectionNames(s) == [i \in 1..Len(image_files[s]) |-> image_files[s][i].image_file]

\* C8: with include_subfolders there is exactly one section per directory
\* that directly holds an eligible file, non-empty and holding exactly that
\* directory's eligible files, and none for the other directories; without,
\* there is one section, of the eligible files directly in the root; in both
\* modes total_images is the sum of the section sizes.
C8_Discovery ==
    Discovered =>
        /\ total_images = SumTo(SectionSizes, Len(image_files))
        /\ IF include_subfolders
           THEN /\ \A d \in Dirs(fs) :
                      Cardinality({s \in 1..Len(image_files) :
                                      \E i \in 1..Len(image_files[s]) :
                                          image_files[s][i].root = d})
                          = IF EligibleFiles(d) # <<>> THEN 1 ELSE 0
                /\ \A s \in 1..Len(image_files) :
                      /\ image_files[s] # <<>>
                      /\ \A i \in 1..Len(image_files[s]) :
                            image_files[s][i].root = image_files[s][1].root
                      /\ SectionNames(s) = EligibleFiles(image_files[s][1].root)
           ELSE /\ Len(image_files) = 1
                /\ \A i \in 1..Len(image_files[1]) : image_files[1][i].root = RootDir
                /\ SectionNames(1) = EligibleFiles(RootDir)

\* C8's case: a recursive discovery over a tree three levels deep whose middle
\* directory holds files but no eligible one
C8_Witness ==
    /\ C8_Discovery
    /\ Discovered
    /\ include_subfolders
    /\ Len(fs) = 3
    /\ fs[3].parent = 2
    /\ fs[2].files # <<>>
    /\ EligibleFiles(2) = <<>>
    /\ EligibleFiles(3) # <<>>
    /\ Len(image_files) = 2

\* a fatal condition: the root is no directory, the font file is missing, a
\* colour string is malformed, or the font does not load
FatalCondition ==
    \/ ~folder_is_dir
    \/ ~font_exists
    \/ ~SixHexDigits(background_color)
    \/ ~SixHexDigits(text_color)
    \/ ~font_loads

\* C9: a run in which a fatal condition holds ends in an error and returns no
\* image, and nothing has been drawn and no source image opened when the
\* error is raised.
C9_FatalAborts ==
    /\ FatalCondition /\ pc = "done" => result \in Errors
    /\ FatalCondition => canvas = <<>> /\ outcomes = <<>>
    /\ result \in Errors => canvas = <<>> /\ outcomes = <<>>

\* C10: throughout the loop every painted cell (thumbnail and caption band)
\* and every section title band lies inside the canvas, below the top divider
\* and not below the bottom divider's y; no two cells share a grid position
\* or overlap; no cell overlaps a title band; and in grouped mode the cursor
\* after the last section is the bottom divider's y.
C10_Layout ==
    LET bottom == output_height - 138
        Apart(j, k) ==
            \/ canvas[j].x + 256 <= canvas[k].x
            \/ canvas[k].x + 256 <= canvas[j].x
            \/ canvas[j].y + 316 <= canvas[k].y
            \/ canvas[k].y + 316 <= canvas[j].y
    IN  /\ \A k \in PasteOps :
              /\ canvas[k].x >= 0
              /\ canvas[k].x + 256 <= output_width
              /\ canvas[k].y > 138
              /\ canvas[k].y + 316 <= bottom
              /\ bottom <= output_height
        /\ \A t \in TitleOps :
              /\ canvas[t].x >= 0
              /\ canvas[t].y > 138
              /\ canvas[t].y + 40 <= bottom
        /\ \A j, k \in PasteOps :
              j # k => /\ <<canvas[j].x, canvas[j].y>> # <<canvas[k].x, canvas[k].y>>
                       /\ Apart(j, k)
        /\ \A k \in PasteOps : \A t \in TitleOps :
              \/ canvas[t].y + 40 <= canvas[k].y
              \/ canvas[k].y + 316 <= canvas[t].y
        /\ include_subfolders /\ pc = "draw_footer" => current_y = bottom

\* C10's case: the loop of a grouped render has ended after two sections,
\* with an item skipped and three cells painted
C10_Witness ==
    /\ C10_Layout
    /\ pc = "draw_footer"
    /\ include_subfolders
    /\ Len(image_files) = 2
    /\ \E o \in 1..Len(outcomes) : ~outcomes[o].painted
    /\ Cardinality(PasteOps) >= 3
    /\ TitleOps # {}

====
